---------------------------- MODULE Spec2Model ----------------------------
(***************************************************************************)
(* A model of the two exercises of the repository:                         *)
(*   question_2/flattenlist.py    flatten_list, the iterative flattener    *)
(*   question_3/closecustomers.py the customer parse / filter / format     *)
(*                                pipeline                                 *)
(*                                                                         *)
(* The two programs share nothing.  Each specification below runs one of   *)
(* them (or one function of them, called directly as the unit tests do)    *)
(* and leaves the variables of the others at their idle values.            *)
(***************************************************************************)
EXTENDS Integers, Sequences, FiniteSets, TLC

VARIABLES
    \* ---- flatten_list (question_2/flattenlist.py)
    input_list,         \* the argument of flatten_list
    stack,              \* the local work list
    result,             \* the local result list
    fpc,                \* "loop": at the while test; "done": returned
    returned,           \* the value returned by flatten_list
    iterations,         \* history: number of loop iterations run so far
    \* ---- main (question_3/closecustomers.py)
    customer_file_contents, \* the lines get_file_contents returned
    customers,          \* the list parse_customer_data returned
    customers_in_range, \* the list get_customers_in_range returned
    printed,            \* the text main printed
    mpc,                \* the call main is at, or "done"
    exception,          \* the exception that ended main at mpc, or "none"
    \* ---- one function of closecustomers.py called directly
    arg,                \* the argument of the call
    ret,                \* what the call returned or raised
    upc                 \* "call": about to call; "returned": the call is over

fvars == <<input_list, stack, result, fpc, returned, iterations>>

mvars == <<customer_file_contents, customers, customers_in_range, printed,
           mpc, exception>>

uvars == <<arg, ret, upc>>

vars == <<fvars, mvars, uvars>>

\* The values of a program's variables while another program runs.
FlattenIdle ==
    /\ input_list = <<>>
    /\ stack = <<>>
    /\ result = <<>>
    /\ fpc = "idle"
    /\ returned = <<>>
    /\ iterations = 0

MainIdle ==
    /\ customer_file_contents = <<>>
    /\ customers = <<>>
    /\ customers_in_range = <<>>
    /\ printed = <<>>
    /\ mpc = "idle"
    /\ exception = "none"

UnitIdle ==
    /\ arg = <<>>
    /\ ret = <<>>
    /\ upc = "idle"

(***************************************************************************)
(* Bounds of the model.                                                    *)
(***************************************************************************)
\* Largest number of nodes (lists plus leaves) of an input of flatten_list.
MaxNodes == 6

\* Largest number of lines of the customer file.
MaxLines == 3

\* Largest number of customers given to get_customers_in_range and to
\* format_customers when they are called directly.
MaxCustomers == 3

\* The leaf values used in the inputs of flatten_list.
LeafValues == {1, 2}

(***************************************************************************)
(* question_2/flattenlist.py                                               *)
(*                                                                         *)
(* A Python value given to flatten_list is a node: a list (isList, with    *)
(* its elements) or anything else (a leaf, with its value).                *)
(***************************************************************************)
Leaf(v) == [isList |-> FALSE, val |-> v, elems |-> <<>>]

List(es) == [isList |-> TRUE, val |-> 0, elems |-> es]

\* isinstance(current_element, list)
IsList(node) == node.isList

RECURSIVE ForestsOfSize(_)
\* All sequences of nodes with k nodes in total.
ForestsOfSize(k) ==
    IF k = 0 THEN {<<>>}
    ELSE UNION { UNION { { <<t>> \o f : f \in ForestsOfSize(k - i) } :
                         t \in (IF i = 1 THEN {Leaf(v) : v \in LeafValues} ELSE {})
                               \cup {List(es) : es \in ForestsOfSize(i - 1)} } :
                 i \in 1..k }

\* All nodes (nested lists and leaves) with exactly n nodes.
NodesOfSize(n) ==
    (IF n = 1 THEN {Leaf(v) : v \in LeafValues} ELSE {})
        \cup {List(es) : es \in ForestsOfSize(n - 1)}

\* The inputs of flatten_list the model explores.
Inputs == UNION {NodesOfSize(n) : n \in 1..MaxNodes}

RECURSIVE ForwardPush(_, _, _)
\* A faulty variant of ReversePush: the elements are pushed from start to end.
ForwardPush(stk, elems, index) ==
    IF index < 1 THEN stk
    ELSE Append(ForwardPush(stk, elems, index - 1), elems[index])

RECURSIVE SkipLastPush(_, _, _)
\* A faulty variant of ReversePush: the range starts one element too low, so the last
\* element of the list is never pushed.
SkipLastPush(stk, elems, index) ==
    IF index < 1 THEN stk
    ELSE IF index = Len(elems) THEN SkipLastPush(stk, elems, index - 1)
    ELSE SkipLastPush(Append(stk, elems[index]), elems, index - 1)

RECURSIVE ReversePush(_, _, _)
\* for index in xrange(len(current_element)-1, -1, -1):
\*     stack.append(current_element[index])
\* index is the 1-based position of the element pushed next.
ReversePush(stk, elems, index) ==
    IF index < 1 THEN stk
    ELSE ReversePush(Append(stk, elems[index]), elems, index - 1)

\* stack = [input_list]; result = []
FlattenInit ==
    /\ input_list \in Inputs
    /\ stack = <<input_list>>
    /\ result = <<>>
    /\ fpc = "loop"
    /\ returned = <<>>
    /\ iterations = 0
    /\ MainIdle
    /\ UnitIdle

\* One iteration of the while loop whose popped element is a list.
PopList ==
    /\ fpc = "loop"
    /\ Len(stack) > 0
    /\ LET current_element == stack[Len(stack)]
           popped == SubSeq(stack, 1, Len(stack) - 1)
       IN  /\ IsList(current_element)
           /\ stack' = ReversePush(popped, current_element.elems,
                                   Len(current_element.elems))
           /\ result' = result
    /\ iterations' = iterations + 1
    /\ UNCHANGED <<input_list, fpc, returned, mvars, uvars>>

\* A faulty variant of PopLeaf: the leaf is inserted at the front of result.
PopLeafPrepend ==
    /\ fpc = "loop"
    /\ Len(stack) > 0
    /\ LET current_element == stack[Len(stack)]
           popped == SubSeq(stack, 1, Len(stack) - 1)
       IN  /\ ~IsList(current_element)
           /\ stack' = popped
           /\ result' = <<current_element>> \o result
    /\ iterations' = iterations + 1
    /\ UNCHANGED <<input_list, fpc, returned, mvars, uvars>>

\* One iteration of the while loop whose popped element is not a list.
PopLeaf ==
    /\ fpc = "loop"
    /\ Len(stack) > 0
    /\ LET current_element == stack[Len(stack)]
           popped == SubSeq(stack, 1, Len(stack) - 1)
       IN  /\ ~IsList(current_element)
           /\ stack' = popped
           /\ result' = Append(result, current_element)
    /\ iterations' = iterations + 1
    /\ UNCHANGED <<input_list, fpc, returned, mvars, uvars>>

\* The while test fails: return result.
FlattenReturn ==
    /\ fpc = "loop"
    /\ Len(stack) = 0
    /\ fpc' = "done"
    /\ returned' = result
    /\ UNCHANGED <<input_list, stack, result, iterations, mvars, uvars>>

FlattenNext == PopList \/ PopLeaf \/ FlattenReturn

SpecFlatten == FlattenInit /\ [][FlattenNext]_vars

\* The loop is sequential code: while an iteration or the return is possible,
\* the interpreter takes it.
FairSpecFlatten == SpecFlatten /\ WF_vars(FlattenNext)

(***************************************************************************)
(* Properties of flatten_list.  The operators below are the reference      *)
(* notions the claims speak of, defined by structural recursion on the     *)
(* input and independently of the work list.                               *)
(***************************************************************************)
RECURSIVE PreOrderLeaves(_)
RECURSIVE PreOrderLeavesOfSeq(_)
\* The leaves of a node in depth-first, left-to-right pre-order.
PreOrderLeaves(node) ==
    IF node.isList THEN PreOrderLeavesOfSeq(node.elems) ELSE <<node>>

\* The pre-order leaves of a sequence of nodes, first node first.
PreOrderLeavesOfSeq(nodes) ==
    IF nodes = <<>> THEN <<>>
    ELSE PreOrderLeaves(Head(nodes)) \o PreOrderLeavesOfSeq(Tail(nodes))

RECURSIVE LeafCount(_)
RECURSIVE LeafCountOfSeq(_)
\* The number of leaves of a node.
LeafCount(node) == IF node.isList THEN LeafCountOfSeq(node.elems) ELSE 1

LeafCountOfSeq(nodes) ==
    IF nodes = <<>> THEN 0
    ELSE LeafCount(Head(nodes)) + LeafCountOfSeq(Tail(nodes))

RECURSIVE NodeCount(_)
RECURSIVE NodeCountOfSeq(_)
\* The number of nodes (lists plus leaves) of a node.
NodeCount(node) == IF node.isList THEN 1 + NodeCountOfSeq(node.elems) ELSE 1

NodeCountOfSeq(nodes) ==
    IF nodes = <<>> THEN 0
    ELSE NodeCount(Head(nodes)) + NodeCountOfSeq(Tail(nodes))

RECURSIVE TopToBottom(_)
\* The items of the stack from its top (the end of the list) to its bottom.
TopToBottom(stk) ==
    IF stk = <<>> THEN <<>>
    ELSE <<stk[Len(stk)]>> \o TopToBottom(SubSeq(stk, 1, Len(stk) - 1))

NoListIn(seq) == \A i \in 1..Len(seq) : ~seq[i].isList

\* C1: when flatten_list returns, the returned list is exactly the leaves of
\* the input in depth-first left-to-right pre-order, one per occurrence (its
\* length is the number of leaves), and holds no list; empty lists at any
\* depth contribute nothing.
C1_FlattenIsPreOrderLeaves ==
    fpc = "done" =>
        /\ returned = PreOrderLeaves(input_list)
        /\ Len(returned) = LeafCount(input_list)
        /\ NoListIn(returned)

\* flatten_list([1, [2, []]]) has returned [1, 2].
C1_Witness ==
    /\ fpc = "done"
    /\ input_list = List(<<Leaf(1), List(<<Leaf(2), List(<<>>)>>)>>)
    /\ returned = <<Leaf(1), Leaf(2)>>

\* C9 (state part): at the start of every iteration, result followed by the
\* pre-order leaves of the stack items, top of the stack first, is the
\* pre-order leaf sequence of the input; result never holds a list.
WorkListInv ==
    /\ result \o PreOrderLeavesOfSeq(TopToBottom(stack))
           = PreOrderLeaves(input_list)
    /\ NoListIn(result)

\* C9 (step part): an iteration that pops a list leaves result alone and puts
\* the list's elements on the stack so that they pop in left-to-right order;
\* an iteration that pops a non-list appends it to result.  result only ever
\* grows by appending.
WorkListStep ==
    LET top == stack[Len(stack)]
        rest == SubSeq(stack, 1, Len(stack) - 1)
    IN  (fpc = "loop" /\ stack # <<>> /\ iterations' = iterations + 1) =>
            IF top.isList
            THEN /\ result' = result
                 /\ TopToBottom(stack') = top.elems \o TopToBottom(rest)
            ELSE /\ result' = Append(result, top)
                 /\ stack' = rest

\* C9: the work-list invariant of flatten_list holds at the start of every
\* loop iteration and every iteration maintains it as described: a popped
\* list pushes its elements in reverse index order, a popped non-list is
\* appended to result, and result only grows by appending and never holds a
\* list.
C9_WorkListInvariant ==
    /\ []WorkListInv
    /\ [][WorkListStep /\ Len(result') >= Len(result)
            /\ SubSeq(result', 1, Len(result)) = result]_vars

\* The loop is about to pop the inner list [2, 1] with 1 already in result:
\* flatten_list([1, [2, 1], 2]) after two iterations.
C9_Witness ==
    /\ fpc = "loop"
    /\ input_list = List(<<Leaf(1), List(<<Leaf(2), Leaf(1)>>), Leaf(2)>>)
    /\ result = <<Leaf(1)>>
    /\ stack = <<Leaf(2), List(<<Leaf(2), Leaf(1)>>)>>

\* C10 (state part): every iteration pops one item and pushes only that
\* item's direct elements, so the iterations run plus the nodes still held by
\* the stack always make up the nodes of the input; the loop can always take
\* its next step; it returns with the stack empty after exactly one iteration
\* per node; a non-list input returns a one-element list after one iteration.
LoopRunsOncePerNode ==
    /\ iterations + NodeCountOfSeq(stack) = NodeCount(input_list)
    /\ fpc = "loop" => ENABLED FlattenNext
    /\ fpc = "done" => /\ stack = <<>>
                       /\ iterations = NodeCount(input_list)
    /\ (fpc = "done" /\ ~input_list.isList) =>
            /\ returned = <<input_list>>
            /\ iterations = 1

\* C10: for every finite nested input the loop of flatten_list terminates,
\* having run exactly once per node of the input and with the stack empty,
\* whatever the nesting depth; a non-list input gives a one-element list after
\* one iteration.
C10_FlattenTerminates ==
    /\ []LoopRunsOncePerNode
    /\ <>(fpc = "done")

\* flatten_list([[[[[1]]]]]) has returned after six iterations.
C10_Witness ==
    /\ fpc = "done"
    /\ input_list = List(<<List(<<List(<<List(<<List(<<Leaf(1)>>)>>)>>)>>)>>)
    /\ iterations = 6
    /\ stack = <<>>
    /\ returned = <<Leaf(1)>>

(***************************************************************************)
(* question_3/closecustomers.py                                            *)
(*                                                                         *)
(* Values.  A float is written as the text Python's repr gives it          *)
(* ("53.3381985", "inf", "1.0000000000000002"): floats are only ever       *)
(* passed to the interpreter's own operations, which the tables below      *)
(* give on the sampled inputs.  A text (a name, the printed output) is the *)
(* sequence of its characters; a character outside ASCII is written        *)
(* "U+00E1".  An exception raised by an operation stands in the place of   *)
(* its value, under its class name.                                        *)
(***************************************************************************)
\* Coordinate = collections.namedtuple('Coordinate', ['latitude', 'longitude'])
Coordinate(latitude, longitude) ==
    [latitude |-> latitude, longitude |-> longitude]

\* Customer = collections.namedtuple('Customer', ['name', 'user_id', 'location'])
Customer(name, user_id, location) ==
    [name |-> name, user_id |-> user_id, location |-> location]

EARTH_RADIUS_IN_KM == "6371.0"

RANGE_IN_KM == "100.0"

DUBLIN_OFFICE == Coordinate("53.3381985", "-6.2592576")

EXPECTED_KEYS == {"name", "user_id", "latitude", "longitude"}

ExceptionNames ==
    {"ValueError", "TypeError", "OverflowError", "UnicodeEncodeError"}

\* Whether x stands for a raised exception instead of a value.
IsException(x) == x \in ExceptionNames

(***************************************************************************)
(* The interpreter and its library on the sampled inputs: json.loads,      *)
(* float(), math.radians / sin / cos / acos, abs and the float operators   *)
(* *, +, -, <=.  Every entry is the result the interpreter gives (IEEE     *)
(* double arithmetic); an entry that is an exception name is the exception *)
(* the call raises.                                                        *)
(*                                                                         *)
(* A decoded JSON value is a record: t is its kind ("object", "array",     *)
(* "string", "number", "null"; "ValueError" when json.loads raises); keys  *)
(* are the members of EXPECTED_KEYS (and other keys) for which             *)
(* `key in value` holds; name, user_id, latitude and longitude are the     *)
(* values of an object's keys; hashable tells whether set(value) works on  *)
(* an array.  A latitude or longitude is a record of its JSON kind t and   *)
(* its text s.                                                             *)
(***************************************************************************)
HugeIntLiteral ==
    "10000000000000000000000000000000000000000000000000000000000000" \o
    "00000000000000000000000000000000000000000000000000000000000000" \o
    "00000000000000000000000000000000000000000000000000000000000000" \o
    "00000000000000000000000000000000000000000000000000000000000000" \o
    "00000000000000000000000000000000000000000000000000000000000000"

LineOffice ==
    "{\"latitude\": \"53.3381985\", \"user_id\": 12," \o
    " \"name\": \"Jack\", \"longitude\": \"-6.2592576\"}"

LineNear ==
    "{\"latitude\": 53.3498, \"user_id\": 2," \o
    " \"name\": \"Arya\", \"longitude\": -6.2603}"

LineNearTwin ==
    "{\"latitude\": 53.3498, \"user_id\": 2," \o
    " \"name\": \"Bran\", \"longitude\": -6.2603, \"email\": \"b@x.io\"}"

LineFar ==
    "{\"latitude\": \"+51.92893\", \"user_id\": 1," \o
    " \"name\": \"Alice\", \"longitude\": \"-10.276990\"}"

LineUnicode ==
    "{\"latitude\": \"53.3381985\", \"user_id\": 3," \o
    " \"name\": \"Se\\u00e1n\", \"longitude\": \"-6.2592576\"}"

LineEmpty == ""

LineMissing == "{\"name\": \"Hodor\"}"

LineInvalid ==
    "{\"latitude\": \"invalid\", \"user_id\": 4," \o
    " \"name\": \"Dany\", \"longitude\": \"invalid\"}"

LineNumber == "5"

LineArray == "[\"name\"]"

LineNullLat ==
    "{\"latitude\": null, \"user_id\": 5," \o
    " \"name\": \"Jon\", \"longitude\": \"-6.3\"}"

LineHugeLat ==
    "{\"latitude\": "
    \o HugeIntLiteral \o
    ", \"user_id\": 7, \"name\": \"Sam\", \"longitude\": \"-6.3\"}"

LineOvershoot ==
    "{\"latitude\": \"53.33819850051181\", \"user_id\": 6," \o
    " \"name\": \"Ned\", \"longitude\": \"-6.2592576\"}"

SampleLines ==
    {LineOffice, LineNear, LineNearTwin, LineFar,
     LineUnicode, LineEmpty, LineMissing, LineInvalid,
     LineNumber, LineArray, LineNullLat, LineHugeLat,
     LineOvershoot}

JsonLoadsTable ==
   (LineOffice :>
       [t |-> "object", keys |-> {"latitude", "longitude", "name", "user_id"}, name |-> <<"J", "a", "c", "k">>, user_id |-> 12,
        latitude |-> [t |-> "str", s |-> "53.3381985"],
        longitude |-> [t |-> "str", s |-> "-6.2592576"],
        hashable |-> TRUE])
  @@
   (LineNear :>
       [t |-> "object", keys |-> {"latitude", "longitude", "name", "user_id"}, name |-> <<"A", "r", "y", "a">>, user_id |-> 2,
        latitude |-> [t |-> "float", s |-> "53.3498"],
        longitude |-> [t |-> "float", s |-> "-6.2603"],
        hashable |-> TRUE])
  @@
   (LineNearTwin :>
       [t |-> "object", keys |-> {"email", "latitude", "longitude", "name", "user_id"}, name |-> <<"B", "r", "a", "n">>, user_id |-> 2,
        latitude |-> [t |-> "float", s |-> "53.3498"],
        longitude |-> [t |-> "float", s |-> "-6.2603"],
        hashable |-> TRUE])
  @@
   (LineFar :>
       [t |-> "object", keys |-> {"latitude", "longitude", "name", "user_id"}, name |-> <<"A", "l", "i", "c", "e">>, user_id |-> 1,
        latitude |-> [t |-> "str", s |-> "+51.92893"],
        longitude |-> [t |-> "str", s |-> "-10.276990"],
        hashable |-> TRUE])
  @@
   (LineUnicode :>
       [t |-> "object", keys |-> {"latitude", "longitude", "name", "user_id"}, name |-> <<"S", "e", "U+00E1", "n">>, user_id |-> 3,
        latitude |-> [t |-> "str", s |-> "53.3381985"],
        longitude |-> [t |-> "str", s |-> "-6.2592576"],
        hashable |-> TRUE])
  @@
   (LineEmpty :>
       [t |-> "ValueError", keys |-> {}, name |-> <<>>, user_id |-> 0,
        latitude |-> [t |-> "absent", s |-> ""],
        longitude |-> [t |-> "absent", s |-> ""],
        hashable |-> TRUE])
  @@
   (LineMissing :>
       [t |-> "object", keys |-> {"name"}, name |-> <<"H", "o", "d", "o", "r">>, user_id |-> 0,
        latitude |-> [t |-> "absent", s |-> ""],
        longitude |-> [t |-> "absent", s |-> ""],
        hashable |-> TRUE])
  @@
   (LineInvalid :>
       [t |-> "object", keys |-> {"latitude", "longitude", "name", "user_id"}, name |-> <<"D", "a", "n", "y">>, user_id |-> 4,
        latitude |-> [t |-> "str", s |-> "invalid"],
        longitude |-> [t |-> "str", s |-> "invalid"],
        hashable |-> TRUE])
  @@
   (LineNumber :>
       [t |-> "number", keys |-> {}, name |-> <<>>, user_id |-> 0,
        latitude |-> [t |-> "absent", s |-> ""],
        longitude |-> [t |-> "absent", s |-> ""],
        hashable |-> TRUE])
  @@
   (LineArray :>
       [t |-> "array", keys |-> {"name"}, name |-> <<>>, user_id |-> 0,
        latitude |-> [t |-> "absent", s |-> ""],
        longitude |-> [t |-> "absent", s |-> ""],
        hashable |-> TRUE])
  @@
   (LineNullLat :>
       [t |-> "object", keys |-> {"latitude", "longitude", "name", "user_id"}, name |-> <<"J", "o", "n">>, user_id |-> 5,
        latitude |-> [t |-> "null", s |-> ""],
        longitude |-> [t |-> "str", s |-> "-6.3"],
        hashable |-> TRUE])
  @@
   (LineHugeLat :>
       [t |-> "object", keys |-> {"latitude", "longitude", "name", "user_id"}, name |-> <<"S", "a", "m">>, user_id |-> 7,
        latitude |-> [t |-> "int", s |-> "1000000000000000000000000000000000000000000000000000000000000000000000000000000000000000000000000000000000000000000000000000000000000000000000000000000000000000000000000000000000000000000000000000000000000000000000000000000000000000000000000000000000000000000000000000000000000000000000000000000000000000000000"],
        longitude |-> [t |-> "str", s |-> "-6.3"],
        hashable |-> TRUE])
  @@
   (LineOvershoot :>
       [t |-> "object", keys |-> {"latitude", "longitude", "name", "user_id"}, name |-> <<"N", "e", "d">>, user_id |-> 6,
        latitude |-> [t |-> "str", s |-> "53.33819850051181"],
        longitude |-> [t |-> "str", s |-> "-6.2592576"],
        hashable |-> TRUE])

FloatTable ==
   (<<"str", "53.3381985">> :> "53.3381985")
  @@
   (<<"str", "-6.2592576">> :> "-6.2592576")
  @@
   (<<"float", "53.3498">> :> "53.3498")
  @@
   (<<"float", "-6.2603">> :> "-6.2603")
  @@
   (<<"str", "+51.92893">> :> "51.92893")
  @@
   (<<"str", "-10.276990">> :> "-10.27699")
  @@
   (<<"str", "invalid">> :> "ValueError")
  @@
   (<<"null", "">> :> "TypeError")
  @@
   (<<"str", "-6.3">> :> "-6.3")
  @@
   (<<"int", HugeIntLiteral>> :> "OverflowError")
  @@
   (<<"str", "53.33819850051181">> :> "53.33819850051181")
  @@
   (<<"int", "53">> :> "53.0")
  @@
   (<<"list", "[]">> :> "TypeError")
  @@
   (<<"str", "inf">> :> "inf")

SampleCoordinates ==
    {Coordinate("53.3381985", "-6.2592576"),
     Coordinate("53.3498", "-6.2603"),
     Coordinate("51.92893", "-10.27699"),
     Coordinate("40.7128", "-74.0059"),
     Coordinate("12.0", "0.0"),
     Coordinate("-89.7", "0.0"),
     Coordinate("53.33819850051181", "-6.2592576"),
     Coordinate("inf", "0.0")}

RadiansTable ==
   ("53.3381985" :> "0.9309271809073006")
  @@
   ("-6.2592576" :> "-0.10924465385047821")
  @@
   ("53.3498" :> "0.9311296652804708")
  @@
   ("-6.2603" :> "-0.10926284716260101")
  @@
   ("51.92893" :> "0.906330805537659")
  @@
   ("-10.27699" :> "-0.17936731269453204")
  @@
   ("40.7128" :> "0.7105724077059474")
  @@
   ("-74.0059" :> "-1.2916466209016715")
  @@
   ("12.0" :> "0.20943951023931956")
  @@
   ("0.0" :> "0.0")
  @@
   ("-89.7" :> "-1.5655603390389137")
  @@
   ("53.33819850051181" :> "0.9309271809162334")
  @@
   ("inf" :> "inf")

SinTable ==
   ("0.9309271809073006" :> "0.8021738964964187")
  @@
   ("0.9311296652804708" :> "0.802294781542369")
  @@
   ("0.906330805537659" :> "0.7872464777039138")
  @@
   ("0.7105724077059474" :> "0.6522677563926911")
  @@
   ("0.20943951023931956" :> "0.20791169081775934")
  @@
   ("-1.5655603390389137" :> "-0.9999862922474267")
  @@
   ("0.9309271809162334" :> "0.8021738965017524")
  @@
   ("inf" :> "ValueError")

CosTable ==
   ("0.9309271809073006" :> "0.597090478721402")
  @@
   ("0.0" :> "1.0")
  @@
   ("0.9311296652804708" :> "0.596928038803575")
  @@
   ("1.819331212279951e-05" :> "0.9999999998345017")
  @@
   ("0.906330805537659" :> "0.6166384543172614")
  @@
   ("0.07012265884405383" :> "0.9975424136403237")
  @@
   ("0.7105724077059474" :> "0.7579886370985023")
  @@
   ("1.1824019670511934" :> "0.3787028544632568")
  @@
   ("0.20943951023931956" :> "0.9781476007338057")
  @@
   ("0.10924465385047821" :> "0.9940387350159284")
  @@
   ("-1.5655603390389137" :> "0.005235963831419537")
  @@
   ("0.9309271809162334" :> "0.5970904787142364")
  @@
   ("0.07010446553193103" :> "0.9975436881933804")
  @@
   ("1.1823837737390706" :> "0.3787196926441282")
  @@
   ("0.10926284716260101" :> "0.9940367512802853")
  @@
   ("1.1122793082071394" :> "0.4426187900815963")
  @@
   ("0.17936731269453204" :> "0.9839567656059979")
  @@
   ("1.2916466209016715" :> "0.275538368984534")

AcosTable ==
   ("1.0" :> "0.0")
  @@
   ("0.9999999794410525" :> "0.00020277547985308875")
  @@
   ("0.9987926682681243" :> "0.04914417059579256")
  @@
   ("0.6946284587744951" :> "0.8028930372173044")
  @@
   ("0.7473423175178424" :> "0.7267431850708865")
  @@
   ("-0.799055193310368" :> "2.4965185159445724")
  @@
   ("1.0000000000000002" :> "ValueError")
  @@
   ("0.9987883832119064" :> "0.04923132207006656")
  @@
   ("0.6946682980960608" :> "0.8028376547858327")
  @@
   ("0.7472083496319704" :> "0.7269447877125118")
  @@
   ("-0.7991769283587118" :> "2.496721010541202")
  @@
   ("0.9999999794410543" :> "0.00020277547054535982")
  @@
   ("0.7203777034560603" :> "0.7664495924512048")
  @@
   ("0.7571644786814604" :> "0.7118350095270681")
  @@
   ("-0.7840587884171603" :> "2.471974594114085")
  @@
   ("0.9987926682679156" :> "0.049144170600041406")
  @@
   ("0.33990506305568197" :> "1.2239803784854557")
  @@
   ("-0.6511652582889326" :> "2.27991513831742")
  @@
   ("0.6946284587759173" :> "0.8028930372153275")
  @@
   ("-0.20278729535651252" :> "1.7749998492782333")
  @@
   ("0.747342317511984" :> "0.7267431850797036")
  @@
   ("0.9999999999999999" :> "1.4901161193847656e-08")
  @@
   ("-0.799055193315739" :> "2.4965185159535057")

AbsTable ==
   ("0.0" :> "0.0")
  @@
   ("1.819331212279951e-05" :> "1.819331212279951e-05")
  @@
   ("0.07012265884405383" :> "0.07012265884405383")
  @@
   ("1.1824019670511934" :> "1.1824019670511934")
  @@
   ("-0.10924465385047821" :> "0.10924465385047821")
  @@
   ("-1.819331212279951e-05" :> "1.819331212279951e-05")
  @@
   ("0.07010446553193103" :> "0.07010446553193103")
  @@
   ("1.1823837737390706" :> "1.1823837737390706")
  @@
   ("-0.10926284716260101" :> "0.10926284716260101")
  @@
   ("-0.07012265884405383" :> "0.07012265884405383")
  @@
   ("-0.07010446553193103" :> "0.07010446553193103")
  @@
   ("1.1122793082071394" :> "1.1122793082071394")
  @@
   ("-0.17936731269453204" :> "0.17936731269453204")
  @@
   ("-1.1824019670511934" :> "1.1824019670511934")
  @@
   ("-1.1823837737390706" :> "1.1823837737390706")
  @@
   ("-1.1122793082071394" :> "1.1122793082071394")
  @@
   ("-1.2916466209016715" :> "1.2916466209016715")
  @@
   ("0.10924465385047821" :> "0.10924465385047821")
  @@
   ("0.10926284716260101" :> "0.10926284716260101")
  @@
   ("0.17936731269453204" :> "0.17936731269453204")
  @@
   ("1.2916466209016715" :> "1.2916466209016715")

MulTable ==
   (<<"0.8021738964964187", "0.8021738964964187">> :> "0.643482960220247")
  @@
   (<<"0.597090478721402", "0.597090478721402">> :> "0.35651703977975296")
  @@
   (<<"0.35651703977975296", "1.0">> :> "0.35651703977975296")
  @@
   (<<"6371.0", "0.0">> :> "0.0")
  @@
   (<<"0.8021738964964187", "0.802294781542369">> :> "0.6435799310485851")
  @@
   (<<"0.597090478721402", "0.596928038803575">> :> "0.35642004845145425")
  @@
   (<<"0.35642004845145425", "0.9999999998345017">> :> "0.3564200483924673")
  @@
   (<<"6371.0", "0.00020277547985308875">> :> "1.2918825821440285")
  @@
   (<<"0.8021738964964187", "0.7872464777039138">> :> "0.6315085745228295")
  @@
   (<<"0.597090478721402", "0.6166384543172614">> :> "0.36818894988631895")
  @@
   (<<"0.36818894988631895", "0.9975424136403237">> :> "0.3672840937452948")
  @@
   (<<"6371.0", "0.04914417059579256">> :> "313.0975108657944")
  @@
   (<<"0.8021738964964187", "0.6522677563926911">> :> "0.5232321677045018")
  @@
   (<<"0.597090478721402", "0.7579886370985023">> :> "0.45258779819052775")
  @@
   (<<"0.45258779819052775", "0.3787028544632568">> :> "0.17139629106999327")
  @@
   (<<"6371.0", "0.8028930372173044">> :> "5115.2315401114465")
  @@
   (<<"0.8021738964964187", "0.20791169081775934">> :> "0.1667813311504407")
  @@
   (<<"0.597090478721402", "0.9781476007338057">> :> "0.5840426191823388")
  @@
   (<<"0.5840426191823388", "0.9940387350159284">> :> "0.5805609863674017")
  @@
   (<<"6371.0", "0.7267431850708865">> :> "4630.080832086618")
  @@
   (<<"0.8021738964964187", "-0.9999862922474267">> :> "-0.8021629004951247")
  @@
   (<<"0.597090478721402", "0.005235963831419537">> :> "0.0031263441506702377")
  @@
   (<<"0.0031263441506702377", "0.9940387350159284">> :> "0.0031077071847566903")
  @@
   (<<"6371.0", "2.4965185159445724">> :> "15905.31946508287")
  @@
   (<<"0.8021738964964187", "0.8021738965017524">> :> "0.6434829602245257")
  @@
   (<<"0.597090478721402", "0.5970904787142364">> :> "0.3565170397754745")
  @@
   (<<"0.3565170397754745", "1.0">> :> "0.3565170397754745")
  @@
   (<<"0.802294781542369", "0.8021738964964187">> :> "0.6435799310485851")
  @@
   (<<"0.596928038803575", "0.597090478721402">> :> "0.35642004845145425")
  @@
   (<<"0.802294781542369", "0.802294781542369">> :> "0.6436769164901176")
  @@
   (<<"0.596928038803575", "0.596928038803575">> :> "0.3563230835098824")
  @@
   (<<"0.3563230835098824", "1.0">> :> "0.3563230835098824")
  @@
   (<<"0.802294781542369", "0.7872464777039138">> :> "0.6316037408494609")
  @@
   (<<"0.596928038803575", "0.6166384543172614">> :> "0.36808878318647076")
  @@
   (<<"0.36808878318647076", "0.9975436881933804">> :> "0.3671846423624456")
  @@
   (<<"6371.0", "0.04923132207006656">> :> "313.65275290839406")
  @@
   (<<"0.802294781542369", "0.6522677563926911">> :> "0.5233110171222053")
  @@
   (<<"0.596928038803575", "0.7579886370985023">> :> "0.45246467057860373")
  @@
   (<<"0.45246467057860373", "0.3787196926441282">> :> "0.17135728097385552")
  @@
   (<<"6371.0", "0.8028376547858327">> :> "5114.87869864054")
  @@
   (<<"0.802294781542369", "0.20791169081775934">> :> "0.1668064645647388")
  @@
   (<<"0.596928038803575", "0.9781476007338057">> :> "0.583883728966453")
  @@
   (<<"0.583883728966453", "0.9940367512802853">> :> "0.5804018850672316")
  @@
   (<<"6371.0", "0.7269447877125118">> :> "4631.365242516413")
  @@
   (<<"0.802294781542369", "-0.9999862922474267">> :> "-0.8022837838840128")
  @@
   (<<"0.596928038803575", "0.005235963831419537">> :> "0.0031254936211357167")
  @@
   (<<"0.0031254936211357167", "0.9940367512802853">> :> "0.0031068555253010027")
  @@
   (<<"6371.0", "2.496721010541202">> :> "15906.609558158")
  @@
   (<<"0.802294781542369", "0.8021738965017524">> :> "0.6435799310528644")
  @@
   (<<"0.596928038803575", "0.5970904787142364">> :> "0.3564200484471769")
  @@
   (<<"0.3564200484471769", "0.9999999998345017">> :> "0.35642004838818997")
  @@
   (<<"6371.0", "0.00020277547054535982">> :> "1.2918825228444875")
  @@
   (<<"0.7872464777039138", "0.8021738964964187">> :> "0.6315085745228295")
  @@
   (<<"0.6166384543172614", "0.597090478721402">> :> "0.36818894988631895")
  @@
   (<<"0.7872464777039138", "0.802294781542369">> :> "0.6316037408494609")
  @@
   (<<"0.6166384543172614", "0.596928038803575">> :> "0.36808878318647076")
  @@
   (<<"0.7872464777039138", "0.7872464777039138">> :> "0.6197570166572188")
  @@
   (<<"0.6166384543172614", "0.6166384543172614">> :> "0.3802429833427813")
  @@
   (<<"0.3802429833427813", "1.0">> :> "0.3802429833427813")
  @@
   (<<"0.7872464777039138", "0.6522677563926911">> :> "0.5134954937399805")
  @@
   (<<"0.6166384543172614", "0.7579886370985023">> :> "0.467404941570468")
  @@
   (<<"0.467404941570468", "0.4426187900815963">> :> "0.2068822097160798")
  @@
   (<<"6371.0", "0.7664495924512048">> :> "4883.0503535066255")
  @@
   (<<"0.7872464777039138", "0.20791169081775934">> :> "0.16367774626974618")
  @@
   (<<"0.6166384543172614", "0.9781476007338057">> :> "0.6031634246106317")
  @@
   (<<"0.6031634246106317", "0.9839567656059979">> :> "0.5934867324117142")
  @@
   (<<"6371.0", "0.7118350095270681">> :> "4535.100845696951")
  @@
   (<<"0.7872464777039138", "-0.9999862922474267">> :> "-0.7872356863239832")
  @@
   (<<"0.6166384543172614", "0.005235963831419537">> :> "0.003228696643867629")
  @@
   (<<"0.003228696643867629", "0.9839567656059979">> :> "0.0031768979068229324")
  @@
   (<<"6371.0", "2.471974594114085">> :> "15748.950139100834")
  @@
   (<<"0.7872464777039138", "0.8021738965017524">> :> "0.6315085745270285")
  @@
   (<<"0.6166384543172614", "0.5970904787142364">> :> "0.3681889498819004")
  @@
   (<<"0.3681889498819004", "0.9975424136403237">> :> "0.36728409374088705")
  @@
   (<<"6371.0", "0.049144170600041406">> :> "313.0975108928638")
  @@
   (<<"0.6522677563926911", "0.8021738964964187">> :> "0.5232321677045018")
  @@
   (<<"0.7579886370985023", "0.597090478721402">> :> "0.45258779819052775")
  @@
   (<<"0.6522677563926911", "0.802294781542369">> :> "0.5233110171222053")
  @@
   (<<"0.7579886370985023", "0.596928038803575">> :> "0.45246467057860373")
  @@
   (<<"0.6522677563926911", "0.7872464777039138">> :> "0.5134954937399805")
  @@
   (<<"0.7579886370985023", "0.6166384543172614">> :> "0.467404941570468")
  @@
   (<<"0.6522677563926911", "0.6522677563926911">> :> "0.425453226029555")
  @@
   (<<"0.7579886370985023", "0.7579886370985023">> :> "0.574546773970445")
  @@
   (<<"0.574546773970445", "1.0">> :> "0.574546773970445")
  @@
   (<<"0.6522677563926911", "0.20791169081775934">> :> "0.13561409209751077")
  @@
   (<<"0.7579886370985023", "0.9781476007338057">> :> "0.7414247667613874")
  @@
   (<<"0.7414247667613874", "0.275538368984534">> :> "0.2042909709581712")
  @@
   (<<"6371.0", "1.2239803784854557">> :> "7797.978991330839")
  @@
   (<<"0.6522677563926911", "-0.9999862922474267">> :> "-0.6522588152676749")
  @@
   (<<"0.7579886370985023", "0.005235963831419537">> :> "0.003968801088474747")
  @@
   (<<"0.003968801088474747", "0.275538368984534">> :> "0.001093556978742375")
  @@
   (<<"6371.0", "2.27991513831742">> :> "14525.339346220284")
  @@
   (<<"0.6522677563926911", "0.8021738965017524">> :> "0.5232321677079809")
  @@
   (<<"0.7579886370985023", "0.5970904787142364">> :> "0.4525877981850963")
  @@
   (<<"0.4525877981850963", "0.3787028544632568">> :> "0.17139629106793636")
  @@
   (<<"6371.0", "0.8028930372153275">> :> "5115.231540098851")
  @@
   (<<"0.20791169081775934", "0.8021738964964187">> :> "0.1667813311504407")
  @@
   (<<"0.9781476007338057", "0.597090478721402">> :> "0.5840426191823388")
  @@
   (<<"0.20791169081775934", "0.802294781542369">> :> "0.1668064645647388")
  @@
   (<<"0.9781476007338057", "0.596928038803575">> :> "0.583883728966453")
  @@
   (<<"0.20791169081775934", "0.7872464777039138">> :> "0.16367774626974618")
  @@
   (<<"0.9781476007338057", "0.6166384543172614">> :> "0.6031634246106317")
  @@
   (<<"0.20791169081775934", "0.6522677563926911">> :> "0.13561409209751077")
  @@
   (<<"0.9781476007338057", "0.7579886370985023">> :> "0.7414247667613874")
  @@
   (<<"0.20791169081775934", "0.20791169081775934">> :> "0.04322727117869955")
  @@
   (<<"0.9781476007338057", "0.9781476007338057">> :> "0.9567727288213006")
  @@
   (<<"0.9567727288213006", "1.0">> :> "0.9567727288213006")
  @@
   (<<"0.20791169081775934", "-0.9999862922474267">> :> "-0.20790884081574454")
  @@
   (<<"0.9781476007338057", "0.005235963831419537">> :> "0.005121545459232005")
  @@
   (<<"0.005121545459232005", "1.0">> :> "0.005121545459232005")
  @@
   (<<"6371.0", "1.7749998492782333">> :> "11308.524039751625")
  @@
   (<<"0.20791169081775934", "0.8021738965017524">> :> "0.16678133115154964")
  @@
   (<<"0.9781476007338057", "0.5970904787142364">> :> "0.5840426191753297")
  @@
   (<<"0.5840426191753297", "0.9940387350159284">> :> "0.5805609863604344")
  @@
   (<<"6371.0", "0.7267431850797036">> :> "4630.080832142791")
  @@
   (<<"-0.9999862922474267", "0.8021738964964187">> :> "-0.8021629004951247")
  @@
   (<<"0.005235963831419537", "0.597090478721402">> :> "0.0031263441506702377")
  @@
   (<<"-0.9999862922474267", "0.802294781542369">> :> "-0.8022837838840128")
  @@
   (<<"0.005235963831419537", "0.596928038803575">> :> "0.0031254936211357167")
  @@
   (<<"-0.9999862922474267", "0.7872464777039138">> :> "-0.7872356863239832")
  @@
   (<<"0.005235963831419537", "0.6166384543172614">> :> "0.003228696643867629")
  @@
   (<<"-0.9999862922474267", "0.6522677563926911">> :> "-0.6522588152676749")
  @@
   (<<"0.005235963831419537", "0.7579886370985023">> :> "0.003968801088474747")
  @@
   (<<"-0.9999862922474267", "0.20791169081775934">> :> "-0.20790884081574454")
  @@
   (<<"0.005235963831419537", "0.9781476007338057">> :> "0.005121545459232005")
  @@
   (<<"-0.9999862922474267", "-0.9999862922474267">> :> "0.999972584682756")
  @@
   (<<"0.005235963831419537", "0.005235963831419537">> :> "2.7415317243933557e-05")
  @@
   (<<"2.7415317243933557e-05", "1.0">> :> "2.7415317243933557e-05")
  @@
   (<<"6371.0", "1.4901161193847656e-08">> :> "9.493529796600342e-05")
  @@
   (<<"-0.9999862922474267", "0.8021738965017524">> :> "-0.8021629005004585")
  @@
   (<<"0.005235963831419537", "0.5970904787142364">> :> "0.0031263441506327186")
  @@
   (<<"0.0031263441506327186", "0.9940387350159284">> :> "0.0031077071847193946")
  @@
   (<<"6371.0", "2.4965185159535057">> :> "15905.319465139784")
  @@
   (<<"0.8021738965017524", "0.8021738964964187">> :> "0.6434829602245257")
  @@
   (<<"0.5970904787142364", "0.597090478721402">> :> "0.3565170397754745")
  @@
   (<<"0.8021738965017524", "0.802294781542369">> :> "0.6435799310528644")
  @@
   (<<"0.5970904787142364", "0.596928038803575">> :> "0.3564200484471769")
  @@
   (<<"0.8021738965017524", "0.7872464777039138">> :> "0.6315085745270285")
  @@
   (<<"0.5970904787142364", "0.6166384543172614">> :> "0.3681889498819004")
  @@
   (<<"0.8021738965017524", "0.6522677563926911">> :> "0.5232321677079809")
  @@
   (<<"0.5970904787142364", "0.7579886370985023">> :> "0.4525877981850963")
  @@
   (<<"0.8021738965017524", "0.20791169081775934">> :> "0.16678133115154964")
  @@
   (<<"0.5970904787142364", "0.9781476007338057">> :> "0.5840426191753297")
  @@
   (<<"0.8021738965017524", "-0.9999862922474267">> :> "-0.8021629005004585")
  @@
   (<<"0.5970904787142364", "0.005235963831419537">> :> "0.0031263441506327186")
  @@
   (<<"0.8021738965017524", "0.8021738965017524">> :> "0.6434829602288042")
  @@
   (<<"0.5970904787142364", "0.5970904787142364">> :> "0.356517039771196")
  @@
   (<<"0.356517039771196", "1.0">> :> "0.356517039771196")

AddTable ==
   (<<"0.643482960220247", "0.35651703977975296">> :> "1.0")
  @@
   (<<"0.6435799310485851", "0.3564200483924673">> :> "0.9999999794410525")
  @@
   (<<"0.6315085745228295", "0.3672840937452948">> :> "0.9987926682681243")
  @@
   (<<"0.5232321677045018", "0.17139629106999327">> :> "0.6946284587744951")
  @@
   (<<"0.1667813311504407", "0.5805609863674017">> :> "0.7473423175178424")
  @@
   (<<"-0.8021629004951247", "0.0031077071847566903">> :> "-0.799055193310368")
  @@
   (<<"0.6434829602245257", "0.3565170397754745">> :> "1.0000000000000002")
  @@
   (<<"0.6436769164901176", "0.3563230835098824">> :> "1.0")
  @@
   (<<"0.6316037408494609", "0.3671846423624456">> :> "0.9987883832119064")
  @@
   (<<"0.5233110171222053", "0.17135728097385552">> :> "0.6946682980960608")
  @@
   (<<"0.1668064645647388", "0.5804018850672316">> :> "0.7472083496319704")
  @@
   (<<"-0.8022837838840128", "0.0031068555253010027">> :> "-0.7991769283587118")
  @@
   (<<"0.6435799310528644", "0.35642004838818997">> :> "0.9999999794410543")
  @@
   (<<"0.6197570166572188", "0.3802429833427813">> :> "1.0")
  @@
   (<<"0.5134954937399805", "0.2068822097160798">> :> "0.7203777034560603")
  @@
   (<<"0.16367774626974618", "0.5934867324117142">> :> "0.7571644786814604")
  @@
   (<<"-0.7872356863239832", "0.0031768979068229324">> :> "-0.7840587884171603")
  @@
   (<<"0.6315085745270285", "0.36728409374088705">> :> "0.9987926682679156")
  @@
   (<<"0.425453226029555", "0.574546773970445">> :> "1.0")
  @@
   (<<"0.13561409209751077", "0.2042909709581712">> :> "0.33990506305568197")
  @@
   (<<"-0.6522588152676749", "0.001093556978742375">> :> "-0.6511652582889326")
  @@
   (<<"0.5232321677079809", "0.17139629106793636">> :> "0.6946284587759173")
  @@
   (<<"0.04322727117869955", "0.9567727288213006">> :> "1.0000000000000002")
  @@
   (<<"-0.20790884081574454", "0.005121545459232005">> :> "-0.20278729535651252")
  @@
   (<<"0.16678133115154964", "0.5805609863604344">> :> "0.747342317511984")
  @@
   (<<"0.999972584682756", "2.7415317243933557e-05">> :> "0.9999999999999999")
  @@
   (<<"-0.8021629005004585", "0.0031077071847193946">> :> "-0.799055193315739")
  @@
   (<<"0.6434829602288042", "0.356517039771196">> :> "1.0000000000000002")

SubTable ==
   (<<"-0.10924465385047821", "-0.10924465385047821">> :> "0.0")
  @@
   (<<"-0.10924465385047821", "-0.10926284716260101">> :> "1.819331212279951e-05")
  @@
   (<<"-0.10924465385047821", "-0.17936731269453204">> :> "0.07012265884405383")
  @@
   (<<"-0.10924465385047821", "-1.2916466209016715">> :> "1.1824019670511934")
  @@
   (<<"-0.10924465385047821", "0.0">> :> "-0.10924465385047821")
  @@
   (<<"-0.10926284716260101", "-0.10924465385047821">> :> "-1.819331212279951e-05")
  @@
   (<<"-0.10926284716260101", "-0.10926284716260101">> :> "0.0")
  @@
   (<<"-0.10926284716260101", "-0.17936731269453204">> :> "0.07010446553193103")
  @@
   (<<"-0.10926284716260101", "-1.2916466209016715">> :> "1.1823837737390706")
  @@
   (<<"-0.10926284716260101", "0.0">> :> "-0.10926284716260101")
  @@
   (<<"-0.17936731269453204", "-0.10924465385047821">> :> "-0.07012265884405383")
  @@
   (<<"-0.17936731269453204", "-0.10926284716260101">> :> "-0.07010446553193103")
  @@
   (<<"-0.17936731269453204", "-0.17936731269453204">> :> "0.0")
  @@
   (<<"-0.17936731269453204", "-1.2916466209016715">> :> "1.1122793082071394")
  @@
   (<<"-0.17936731269453204", "0.0">> :> "-0.17936731269453204")
  @@
   (<<"-1.2916466209016715", "-0.10924465385047821">> :> "-1.1824019670511934")
  @@
   (<<"-1.2916466209016715", "-0.10926284716260101">> :> "-1.1823837737390706")
  @@
   (<<"-1.2916466209016715", "-0.17936731269453204">> :> "-1.1122793082071394")
  @@
   (<<"-1.2916466209016715", "-1.2916466209016715">> :> "0.0")
  @@
   (<<"-1.2916466209016715", "0.0">> :> "-1.2916466209016715")
  @@
   (<<"0.0", "-0.10924465385047821">> :> "0.10924465385047821")
  @@
   (<<"0.0", "-0.10926284716260101">> :> "0.10926284716260101")
  @@
   (<<"0.0", "-0.17936731269453204">> :> "0.17936731269453204")
  @@
   (<<"0.0", "-1.2916466209016715">> :> "1.2916466209016715")
  @@
   (<<"0.0", "0.0">> :> "0.0")

LessEqTable ==
   (<<"0.0", "100.0">> :> TRUE)
  @@
   (<<"1.2918825821440285", "100.0">> :> TRUE)
  @@
   (<<"313.0975108657944", "100.0">> :> FALSE)
  @@
   (<<"5115.2315401114465", "100.0">> :> FALSE)
  @@
   (<<"4630.080832086618", "100.0">> :> FALSE)
  @@
   (<<"15905.31946508287", "100.0">> :> FALSE)
  @@
   (<<"313.65275290839406", "100.0">> :> FALSE)
  @@
   (<<"5114.87869864054", "100.0">> :> FALSE)
  @@
   (<<"4631.365242516413", "100.0">> :> FALSE)
  @@
   (<<"15906.609558158", "100.0">> :> FALSE)
  @@
   (<<"1.2918825228444875", "100.0">> :> TRUE)
  @@
   (<<"4883.0503535066255", "100.0">> :> FALSE)
  @@
   (<<"4535.100845696951", "100.0">> :> FALSE)
  @@
   (<<"15748.950139100834", "100.0">> :> FALSE)
  @@
   (<<"313.0975108928638", "100.0">> :> FALSE)
  @@
   (<<"7797.978991330839", "100.0">> :> FALSE)
  @@
   (<<"14525.339346220284", "100.0">> :> FALSE)
  @@
   (<<"5115.231540098851", "100.0">> :> FALSE)
  @@
   (<<"11308.524039751625", "100.0">> :> FALSE)
  @@
   (<<"4630.080832142791", "100.0">> :> FALSE)
  @@
   (<<"9.493529796600342e-05", "100.0">> :> TRUE)
  @@
   (<<"15905.319465139784", "100.0">> :> FALSE)

(***************************************************************************)
(* The functions of closecustomers.py.                                     *)
(***************************************************************************)
\* json.loads(customer_json); its t is "ValueError" when the line does not
\* decode.
json_loads(customer_json) == JsonLoadsTable[customer_json]

\* float(value) of a latitude or longitude value.
PyFloat(value) == FloatTable[<<value.t, value.s>>]

\* A library call of one argument: an exception raised while evaluating the
\* argument propagates.
Call1(table, x) == IF IsException(x) THEN x ELSE table[x]

\* A library call or operator of two arguments, evaluated left to right.
Call2(table, x, y) ==
    IF IsException(x) THEN x
    ELSE IF IsException(y) THEN y
    ELSE table[<<x, y>>]

\* validate_customer(customer): "True", "False" or the exception that
\* propagates out of it.
validate_customer(customer) ==
    \* line 94: `key in customer` raises on a value that is no container
    IF customer.t \in {"number", "null"} THEN "TypeError"
    ELSE IF ~(EXPECTED_KEYS \subseteq customer.keys)
    THEN \* line 96: set(customer) raises on unhashable elements
         IF customer.t = "array" /\ ~customer.hashable THEN "TypeError"
         ELSE "False"
    \* line 104: customer['latitude'] raises on a string or an array
    ELSE IF customer.t # "object" THEN "TypeError"
    ELSE LET lat == PyFloat(customer.latitude)
             lon == PyFloat(customer.longitude)
         IN  \* only ValueError is caught
             IF lat = "ValueError" THEN "False"
             ELSE IF IsException(lat) THEN lat
             ELSE IF lon = "ValueError" THEN "False"
             ELSE IF IsException(lon) THEN lon
             ELSE "True"

RECURSIVE parse_from(_, _, _)
\* The for loop of parse_customer_data from line index on, customers being
\* the list built so far.  exc is the exception that propagates out of the
\* function ("none": it returns customers).
parse_from(all_customers_json, index, customers_so_far) ==
    IF index > Len(all_customers_json)
    THEN [exc |-> "none", customers |-> customers_so_far]
    ELSE LET customer_data == json_loads(all_customers_json[index])
             valid == validate_customer(customer_data)
             location == Coordinate(PyFloat(customer_data.latitude),
                                    PyFloat(customer_data.longitude))
             customer == Customer(customer_data.name,
                                  customer_data.user_id,
                                  location)
         IN  IF customer_data.t = "ValueError"
             THEN parse_from(all_customers_json, index + 1, customers_so_far)
             ELSE IF IsException(valid)
             THEN [exc |-> valid, customers |-> <<>>]
             ELSE IF valid = "False"
             THEN parse_from(all_customers_json, index + 1, customers_so_far)
             ELSE parse_from(all_customers_json, index + 1,
                             Append(customers_so_far, customer))

\* parse_customer_data(all_customers_json)
parse_customer_data(all_customers_json) ==
    parse_from(all_customers_json, 1, <<>>)

\* distance(coord1, coord2): the distance as a float, or the exception that
\* propagates out of it.
distance(coord1, coord2) ==
    LET c1 == Coordinate(Call1(RadiansTable, coord1.latitude),
                         Call1(RadiansTable, coord1.longitude))
        c2 == Coordinate(Call1(RadiansTable, coord2.latitude),
                         Call1(RadiansTable, coord2.longitude))
        sine_of_latitudes ==
            Call2(MulTable, Call1(SinTable, c1.latitude),
                            Call1(SinTable, c2.latitude))
        cos_of_latitudes ==
            Call2(MulTable, Call1(CosTable, c1.latitude),
                            Call1(CosTable, c2.latitude))
        abs_longitude_difference ==
            Call1(AbsTable, Call2(SubTable, c1.longitude, c2.longitude))
        central_angle ==
            Call1(AcosTable,
                  Call2(AddTable, sine_of_latitudes,
                        Call2(MulTable, cos_of_latitudes,
                              Call1(CosTable, abs_longitude_difference))))
    IN  Call2(MulTable, EARTH_RADIUS_IN_KM, central_angle)

RECURSIVE in_range_from(_, _, _)
\* The for loop of get_customers_in_range from customer index on.
in_range_from(customer_list, index, in_range_so_far) ==
    IF index > Len(customer_list)
    THEN [exc |-> "none", customers |-> in_range_so_far]
    ELSE LET customer == customer_list[index]
             d == distance(customer.location, DUBLIN_OFFICE)
         IN  IF IsException(d)
             THEN [exc |-> d, customers |-> <<>>]
             ELSE IF LessEqTable[<<d, RANGE_IN_KM>>]
             THEN in_range_from(customer_list, index + 1,
                                Append(in_range_so_far, customer))
             ELSE in_range_from(customer_list, index + 1, in_range_so_far)

\* get_customers_in_range(customers)
get_customers_in_range(customer_list) == in_range_from(customer_list, 1, <<>>)

\* Where sorted() places one more element in an already sorted list: after
\* every element whose key is less than or equal to its own (the sort is
\* stable).
InsertByUserId(sorted_list, customer) ==
    LET before == SelectSeq(sorted_list,
                            LAMBDA c : c.user_id <= customer.user_id)
        after == SelectSeq(sorted_list,
                           LAMBDA c : c.user_id > customer.user_id)
    IN  before \o <<customer>> \o after

\* A faulty variant of sorted_by_user_id: the list is left in its input order.
not_sorted(customer_list) == customer_list

RECURSIVE sorted_by_user_id(_)
\* sorted(customers, key=lambda customer: customer.user_id)
sorted_by_user_id(customer_list) ==
    IF customer_list = <<>> THEN <<>>
    ELSE LET n == Len(customer_list)
         IN  InsertByUserId(sorted_by_user_id(SubSeq(customer_list, 1, n - 1)),
                            customer_list[n])

Digit(d) == <<"0", "1", "2", "3", "4", "5", "6", "7", "8", "9">>[d + 1]

RECURSIVE Digits(_)
\* The decimal digits of a natural number, most significant first.
Digits(n) == IF n < 10 THEN <<Digit(n)>>
             ELSE Append(Digits(n \div 10), Digit(n % 10))

\* "{}".format(user_id) of an integer
FormatInt(n) == IF n < 0 THEN <<"-">> \o Digits(-n) ELSE Digits(n)

\* "{}".format(RANGE_IN_KM) of the float
FormatFloat(x) == ("100.0" :> <<"1", "0", "0", ".", "0">>)[x]

\* The characters outside ASCII that occur in the sampled names.
NonAsciiCharacters == {"U+00E1"}

\* Whether a character is ASCII.
IsAscii(ch) == ch \notin NonAsciiCharacters

\* "{}: {}".format(customer.user_id, customer.name).  The template is a byte
\* string and the names json.loads gives are unicode objects, which
\* str.format encodes with the ASCII codec.
FormatLine(customer) ==
    IF \E i \in 1..Len(customer.name) : ~IsAscii(customer.name[i])
    THEN [exc |-> "UnicodeEncodeError", text |-> <<>>]
    ELSE [exc |-> "none",
          text |-> FormatInt(customer.user_id) \o <<":", " ">>
                   \o customer.name]

RECURSIVE Join(_, _)
\* separator.join(lines)
Join(separator, lines) ==
    IF Len(lines) = 0 THEN <<>>
    ELSE IF Len(lines) = 1 THEN lines[1]
    ELSE lines[1] \o separator \o Join(separator, Tail(lines))

NoCustomersPrefix ==
    <<"N", "o", " ", "c", "u", "s", "t", "o", "m", "e", "r", "s", " ",
      "w", "i", "t", "h", "i", "n", " ">>

NoCustomersSuffix == <<" ", "k", "m", ".">>

\* format_customers(customers): the text, or the exception that propagates
\* out of it.
format_customers(customer_list) ==
    LET sorted_customers == sorted_by_user_id(customer_list)
        lines == [i \in 1..Len(sorted_customers) |->
                      FormatLine(sorted_customers[i])]
        result_lines == [i \in 1..Len(lines) |-> lines[i].text]
    IN  IF \E i \in 1..Len(lines) : lines[i].exc # "none"
        THEN [exc |-> "UnicodeEncodeError", text |-> <<>>]
        ELSE IF result_lines # <<>>
        THEN [exc |-> "none", text |-> Join(<<"\n">>, result_lines)]
        ELSE [exc |-> "none",
              text |-> NoCustomersPrefix \o FormatFloat(RANGE_IN_KM)
                       \o NoCustomersSuffix]

(***************************************************************************)
(* main(): the pipeline run on the lines of the customer file.  mpc is the  *)
(* statement main is at; when a call raises, the exception is recorded,    *)
(* mpc stays at the call and main runs no further.                         *)
(***************************************************************************)
RECURSIVE SeqsUpTo(_, _)
\* The sequences of at most n elements of S.
SeqsUpTo(S, n) ==
    IF n = 0 THEN {<<>>}
    ELSE SeqsUpTo(S, n - 1)
         \cup {Append(s, x) : s \in {t \in SeqsUpTo(S, n - 1) : Len(t) = n - 1},
                              x \in S}

\* customer_file_contents = get_file_contents(INPUT_FILE)
MainInit ==
    /\ customer_file_contents \in SeqsUpTo(SampleLines, MaxLines)
    /\ customers = <<>>
    /\ customers_in_range = <<>>
    /\ printed = <<>>
    /\ mpc = "parse_customer_data"
    /\ exception = "none"
    /\ FlattenIdle
    /\ UnitIdle

\* customers = parse_customer_data(customer_file_contents)
MainParse ==
    /\ mpc = "parse_customer_data"
    /\ exception = "none"
    /\ LET r == parse_customer_data(customer_file_contents)
       IN  /\ customers' = r.customers
           /\ exception' = r.exc
           /\ mpc' = IF r.exc = "none" THEN "get_customers_in_range" ELSE mpc
    /\ UNCHANGED <<customer_file_contents, customers_in_range, printed,
                   fvars, uvars>>

\* customers_in_range = get_customers_in_range(customers)
MainFilter ==
    /\ mpc = "get_customers_in_range"
    /\ exception = "none"
    /\ LET r == get_customers_in_range(customers)
       IN  /\ customers_in_range' = r.customers
           /\ exception' = r.exc
           /\ mpc' = IF r.exc = "none" THEN "format_customers" ELSE mpc
    /\ UNCHANGED <<customer_file_contents, customers, printed, fvars, uvars>>

\* print format_customers(customers_in_range)
MainPrint ==
    /\ mpc = "format_customers"
    /\ exception = "none"
    /\ LET r == format_customers(customers_in_range)
       IN  /\ printed' = r.text
           /\ exception' = r.exc
           /\ mpc' = IF r.exc = "none" THEN "done" ELSE mpc
    /\ UNCHANGED <<customer_file_contents, customers, customers_in_range,
                   fvars, uvars>>

MainNext == MainParse \/ MainFilter \/ MainPrint

SpecMain == MainInit /\ [][MainNext]_vars

(***************************************************************************)
(* The functions called directly, as closecustomers_test.py calls them.    *)
(***************************************************************************)
\* The values of a latitude or longitude key in the inputs of
\* validate_customer.
SampleValues ==
    {[t |-> "str", s |-> "53.3381985"], [t |-> "str", s |-> "invalid"],
     [t |-> "float", s |-> "53.3498"], [t |-> "int", s |-> "53"],
     [t |-> "int", s |-> HugeIntLiteral], [t |-> "null", s |-> ""],
     [t |-> "list", s |-> "[]"]}

AbsentValue == [t |-> "absent", s |-> ""]

\* The dictionaries given to validate_customer: every set of keys among the
\* expected ones and "email", every sampled latitude and longitude.
SampleRecords ==
    {[t |-> "object", keys |-> keys,
      name |-> <<"J", "o", "n">>, user_id |-> 1,
      latitude |-> lat, longitude |-> lon, hashable |-> TRUE] :
        keys \in SUBSET (EXPECTED_KEYS \cup {"email"}),
        lat \in SampleValues \cup {AbsentValue},
        lon \in SampleValues \cup {AbsentValue}}

ValidateInit ==
    /\ arg \in {r \in SampleRecords :
                  /\ ("latitude" \in r.keys) = (r.latitude # AbsentValue)
                  /\ ("longitude" \in r.keys) = (r.longitude # AbsentValue)}
    /\ ret = "none"
    /\ upc = "call"
    /\ FlattenIdle
    /\ MainIdle

\* validate_customer(arg)
CallValidate ==
    /\ upc = "call"
    /\ ret' = validate_customer(arg)
    /\ upc' = "returned"
    /\ UNCHANGED <<arg, fvars, mvars>>

SpecValidate == ValidateInit /\ [][CallValidate]_vars

DistanceInit ==
    /\ arg \in [coord1 : SampleCoordinates, coord2 : SampleCoordinates]
    /\ ret = "none"
    /\ upc = "call"
    /\ FlattenIdle
    /\ MainIdle

\* distance(arg.coord1, arg.coord2)
CallDistance ==
    /\ upc = "call"
    /\ ret' = distance(arg.coord1, arg.coord2)
    /\ upc' = "returned"
    /\ UNCHANGED <<arg, fvars, mvars>>

SpecDistance == DistanceInit /\ [][CallDistance]_vars

\* The customers given to get_customers_in_range and format_customers: the
\* customers parse_customer_data makes of the sampled lines.
SampleCustomers ==
    {Customer(<<"J", "a", "c", "k">>, 12, DUBLIN_OFFICE),
     Customer(<<"A", "r", "y", "a">>, 2, Coordinate("53.3498", "-6.2603")),
     Customer(<<"B", "r", "a", "n">>, 2, Coordinate("53.3498", "-6.2603")),
     Customer(<<"A", "l", "i", "c", "e">>, 1,
              Coordinate("51.92893", "-10.27699")),
     Customer(<<"S", "e", "U+00E1", "n">>, 3, DUBLIN_OFFICE),
     Customer(<<"N", "e", "d">>, 6,
              Coordinate("53.33819850051181", "-6.2592576"))}

CustomersInit ==
    /\ arg \in SeqsUpTo(SampleCustomers, MaxCustomers)
    /\ ret = [exc |-> "none"]
    /\ upc = "call"
    /\ FlattenIdle
    /\ MainIdle

\* get_customers_in_range(arg)
CallFilter ==
    /\ upc = "call"
    /\ ret' = get_customers_in_range(arg)
    /\ upc' = "returned"
    /\ UNCHANGED <<arg, fvars, mvars>>

SpecFilter == CustomersInit /\ [][CallFilter]_vars

\* format_customers(arg)
CallFormat ==
    /\ upc = "call"
    /\ ret' = format_customers(arg)
    /\ upc' = "returned"
    /\ UNCHANGED <<arg, fvars, mvars>>

SpecFormat == CustomersInit /\ [][CallFormat]_vars

(***************************************************************************)
(* Properties of closecustomers.py.                                        *)
(***************************************************************************)
\* parse_customer_data is over: it returned or raised.
ParseOver == mpc # "parse_customer_data" \/ exception # "none"

\* An exception propagated out of parse_customer_data.
ParseRaised == mpc = "parse_customer_data" /\ exception # "none"

\* C2: no exception propagates past the parse/validate boundary: whatever
\* the input lines, parse_customer_data returns a list and a record that
\* fails is only absent from it.
C2_NoExceptionPastParse == ~ParseRaised

\* Whether a line decodes as JSON and validate_customer returns True on it.
Passes(line) ==
    /\ json_loads(line).t # "ValueError"
    /\ validate_customer(json_loads(line)) = "True"

\* The Customer a passing line stands for.
CustomerOf(line) ==
    LET data == json_loads(line)
    IN  Customer(data.name, data.user_id,
                 Coordinate(PyFloat(data.latitude), PyFloat(data.longitude)))

RECURSIVE ExpectedCustomers(_)
\* One Customer per passing line, in line order.
ExpectedCustomers(lines) ==
    IF lines = <<>> THEN <<>>
    ELSE (IF Passes(Head(lines)) THEN <<CustomerOf(Head(lines))>> ELSE <<>>)
         \o ExpectedCustomers(Tail(lines))

\* C4: for every list of lines parse_customer_data returns, in line order,
\* exactly one Customer for each line that decodes and passes
\* validate_customer and nothing for any other line; a line that fails never
\* prevents, removes or reorders the Customers of the other lines.
C4_ParseKeepsPassingLines ==
    ParseOver =>
        /\ exception = "none" \/ mpc # "parse_customer_data"
        /\ customers = ExpectedCustomers(customer_file_contents)

\* Whether a latitude or longitude value is a string or a number.
StringOrNumber(value) == value.t \in {"str", "float", "int"}

\* Whether float() makes a float of the value.
Parseable(value) == ~IsException(PyFloat(value))

\* What C3 says validate_customer returns.
ExpectedValid(record) ==
    IF ~(EXPECTED_KEYS \subseteq record.keys) THEN "False"
    ELSE IF ~Parseable(record.latitude) \/ ~Parseable(record.longitude)
    THEN "False"
    ELSE "True"

\* C3: on a record whose latitude and longitude, when present, are strings
\* or numbers, validate_customer returns False if an expected key is absent,
\* False if latitude or longitude cannot be parsed as a float, and True
\* otherwise; extra keys do not change the result.
C3_ValidateDecides ==
    (/\ upc = "returned"
     /\ "latitude" \in arg.keys => StringOrNumber(arg.latitude)
     /\ "longitude" \in arg.keys => StringOrNumber(arg.longitude)) =>
        /\ ret = ExpectedValid(arg)
        /\ ret = validate_customer([arg EXCEPT !.keys = @ \ {"email"}])

\* Whether a customer is within RANGE_IN_KM of DUBLIN_OFFICE.
WithinRange(customer) ==
    LET d == distance(customer.location, DUBLIN_OFFICE)
    IN  ~IsException(d) /\ LessEqTable[<<d, RANGE_IN_KM>>]

\* C5: for every list of customers get_customers_in_range returns exactly
\* the customers whose distance to DUBLIN_OFFICE is at most RANGE_IN_KM, in
\* their original order and with duplicates kept; the empty list gives the
\* empty list and a customer located at DUBLIN_OFFICE is always included.
C5_FilterKeepsCustomersInRange ==
    upc = "returned" =>
        /\ ret.exc = "none"
        /\ ret.customers = SelectSeq(arg, WithinRange)
        /\ arg = <<>> => ret.customers = <<>>
        /\ \A i \in 1..Len(arg) :
              arg[i].location = DUBLIN_OFFICE =>
                  \E j \in 1..Len(ret.customers) : ret.customers[j] = arg[i]

RECURSIVE SplitLines(_)
\* The lines of a text: its parts between the newline characters.
SplitLines(text) ==
    IF \A i \in 1..Len(text) : text[i] # "\n" THEN <<text>>
    ELSE LET first == CHOOSE i \in 1..Len(text) :
                          /\ text[i] = "\n"
                          /\ \A j \in 1..(i - 1) : text[j] # "\n"
         IN  <<SubSeq(text, 1, first - 1)>>
             \o SplitLines(SubSeq(text, first + 1, Len(text)))

\* "{user_id}: {name}"
ExpectedLine(customer) ==
    FormatInt(customer.user_id) \o <<":", " ">> \o customer.name

\* "No customers within 100.0 km."
NoCustomersMessage ==
    <<"N", "o", " ", "c", "u", "s", "t", "o", "m", "e", "r", "s", " ",
      "w", "i", "t", "h", "i", "n", " ", "1", "0", "0", ".", "0", " ",
      "k", "m", ".">>

\* C6: for every non-empty list of customers format_customers returns one
\* line "{user_id}: {name}" per customer, joined by newlines with no trailing
\* newline, in ascending user_id order whatever the input order; for the
\* empty list it returns "No customers within 100.0 km.".
C6_FormatSortsAndJoins ==
    upc = "returned" =>
        /\ ret.exc = "none"
        /\ arg = <<>> => ret.text = NoCustomersMessage
        /\ arg # <<>> =>
              LET lines == SplitLines(ret.text)
              IN  /\ Len(lines) = Len(arg)
                  /\ ret.text[Len(ret.text)] # "\n"
                  /\ \E p \in Permutations(1..Len(arg)) :
                        /\ \A i \in 1..Len(arg) :
                              lines[i] = ExpectedLine(arg[p[i]])
                        /\ \A i \in 1..(Len(arg) - 1) :
                              arg[p[i]].user_id <= arg[p[i + 1]].user_id

\* C7: distance clamps the argument of acos, so that for every pair of
\* coordinates it returns a value instead of raising a domain error, and
\* distance(x, x) is 0 for every coordinate x.
C7_DistanceNeverRaises ==
    upc = "returned" =>
        /\ ~IsException(ret)
        /\ arg.coord1 = arg.coord2 => ret = "0.0"

\* main is over: it printed or an exception ended it.
MainOver == mpc = "done" \/ exception # "none"

\* What the pipeline makes of a list of lines: whether it fails, and the
\* text it prints otherwise.
Pipeline(lines) ==
    LET parsed == parse_customer_data(lines)
        in_range == get_customers_in_range(parsed.customers)
        formatted == format_customers(in_range.customers)
    IN  IF parsed.exc # "none" \/ in_range.exc # "none"
           \/ formatted.exc # "none"
        THEN [failed |-> TRUE, text |-> <<>>]
        ELSE [failed |-> FALSE, text |-> formatted.text]

\* The lines in the order a permutation p of their indices gives.
Permuted(lines, p) == [i \in 1..Len(lines) |-> lines[p[i]]]

\* C8 as stated: the text main prints is the same for every permutation of
\* the input lines, also when two retained customers share a user_id and
\* differ in name.
C8_OrderNeverObservable ==
    mpc = "done" =>
        \A p \in Permutations(1..Len(customer_file_contents)) :
            Pipeline(Permuted(customer_file_contents, p))
                = [failed |-> FALSE, text |-> printed]

\* No two of the customers share a user_id and differ in name.
NoTwins(customer_list) ==
    \A i, j \in 1..Len(customer_list) :
        customer_list[i].user_id = customer_list[j].user_id =>
            customer_list[i].name = customer_list[j].name

\* C8 as amended: main fails on a list of lines exactly when it fails on
\* every permutation of it, and when it prints, it prints the same text for
\* every permutation provided that retained customers sharing a user_id
\* also share a name.
C8_OrderObservableOnlyAmongTwins ==
    MainOver =>
        \A p \in Permutations(1..Len(customer_file_contents)) :
            LET other == Pipeline(Permuted(customer_file_contents, p))
            IN  /\ other.failed = (exception # "none")
                /\ (mpc = "done" /\ NoTwins(customers_in_range)) =>
                       other.text = printed

\* main printed "2: Arya\n12: Jack" for lines given in another order, one of
\* them a customer out of range.
C8_Witness ==
    /\ mpc = "done"
    /\ customer_file_contents = <<LineOffice, LineFar, LineNear>>
    /\ printed = <<"2", ":", " ", "A", "r", "y", "a", "\n",
                   "1", "2", ":", " ", "J", "a", "c", "k">>

=============================================================================
